---- MODULE Spec2Model ----
(***************************************************************************)
(* Label-space remapping and volumetric utilities of                       *)
(* FastSurferCNN/data_loader/data_utils.py.                                *)
(*                                                                         *)
(* A volume is a function from the voxel coordinates <<x, y, z>> of its    *)
(* shape <<h, w, d>> (0-based, as numpy indexes them) to integers.  A      *)
(* Python list or 1-D array is a sequence; position i of the Python array  *)
(* is element i+1 of the sequence.  A call that raises is a record with    *)
(* status "raise" and the name of the exception.                           *)
(***************************************************************************)
EXTENDS Integers, Sequences, FiniteSets, TLC

(***************************************************************************)
(* Bounds of the model.                                                    *)
(***************************************************************************)
MaxLabelVoxels == 3
MaxMaskVoxels == 6

MaxCleanVoxels == 2

MaxSplitVoxels == 5

MaxWeightLabel == 1

\* Python None where an array or a list is expected
None == <<>>

\* no exception, no processing mode
NoError == "none"

(***************************************************************************)
(* Generic helpers: numpy primitives.                                      *)
(***************************************************************************)
Coords(shape) ==
  {<<x, y, z>> : x \in 0..(shape[1] - 1), y \in 0..(shape[2] - 1), z \in 0..(shape[3] - 1)}

\* the shapes of at most n voxels
Shapes(n) ==
  {s \in (1..n) \X (1..n) \X (1..n) : s[1] * s[2] * s[3] <= n}

MinOf(S) == CHOOSE m \in S : \A e \in S : m <= e

MaxOf(S) == CHOOSE m \in S : \A e \in S : e <= m

Abs(i) == IF i < 0 THEN -i ELSE i

\* np.unique: the sorted sequence of the distinct values of a set
RECURSIVE Sorted(_)
Sorted(S) ==
  IF S = {} THEN <<>> ELSE <<MinOf(S)>> \o Sorted(S \ {MinOf(S)})

\* values of a sequence, as a set
Range(s) == {s[i] : i \in 1..Len(s)}

\* a[a == from] = to
Substitute(vol, from, to) ==
  [c \in DOMAIN vol |-> LET v == vol[c] IN IF v = from THEN to ELSE v]

\* np.any(vol == v)
AnyEq(vol, v) == \E c \in DOMAIN vol : vol[c] = v

\* np.unique(vol), as a set
Unique(vol) == {vol[c] : c \in DOMAIN vol}

(***************************************************************************)
(* clean_cortex_labels: the fixed substitutions, applied in source order   *)
(* on the array itself.                                                    *)
(***************************************************************************)
\* the table with left-undetermined (29) sent to the left vessel (30), whose
\* own substitution precedes it
CleanTable_Chained ==
  << <<80, 77>>, <<85, 0>>, <<62, 41>>, <<30, 2>>, <<72, 24>>,
     <<29, 30>>, <<61, 0>>, <<3, 0>>, <<42, 0>> >>

CleanTable ==
  << <<80, 77>>, <<85, 0>>, <<62, 41>>, <<30, 2>>, <<72, 24>>,
     <<29, 0>>, <<61, 0>>, <<3, 0>>, <<42, 0>> >>

RECURSIVE ApplySubstitutions(_, _, _)
ApplySubstitutions(vol, table, i) ==
  IF i > Len(table) THEN vol
  ELSE ApplySubstitutions(Substitute(vol, table[i][1], table[i][2]), table, i + 1)

clean_cortex_labels(aparc) == ApplySubstitutions(aparc, CleanTable, 1)

(***************************************************************************)
(* scipy.ndimage pieces used by fill_unknown_labels_per_hemi.              *)
(***************************************************************************)
\* generate_binary_structure(3, 2): offsets with at most 2 non-zero coordinates
InStruct2(a, b) ==
  /\ \A k \in 1..3 : Abs(a[k] - b[k]) <= 1
  /\ Cardinality({k \in 1..3 : a[k] # b[k]}) <= 2

\* morphology.binary_dilation(mask, struct1) ^ mask, mask given as a set of voxels
DilationShell(mask, shape) ==
  {c \in Coords(shape) \ mask : \E u \in mask : InStruct2(c, u)}

\* gaussian_filter weights exp(-k^2 / (2 sigma^2)), rounded to 1/100000,
\* for sigma = 5 (radius int(4 * 5 + 0.5) = 20), k = 0..20
GaussWeights5 ==
  <<100000, 98020, 92312, 83527, 72615, 60653, 48675, 37531, 27804, 19790,
    13534, 8892, 5613, 3405, 1984, 1111, 598, 309, 153, 73, 34>>

\* mode="reflect" of scipy.ndimage: (d c b a | a b c d | d c b a)
Reflect(p, n) ==
  LET q == p % (2 * n) IN IF q < n THEN q ELSE 2 * n - 1 - q

\* weight with which input position y contributes to output position x along
\* an axis of length n: the sum of the kernel taps that land on y
RECURSIVE AxisWeight(_, _, _, _, _)
AxisWeight(weights, x, y, n, k) ==
  IF k > Len(weights) - 1 THEN 0
  ELSE (IF Reflect(x + k, n) = y THEN weights[Abs(k) + 1] ELSE 0)
       + AxisWeight(weights, x, y, n, k + 1)

RECURSIVE SumOver(_, _)
SumOver(S, f) ==
  IF S = {} THEN 0
  ELSE LET e == CHOOSE e \in S : TRUE IN f[e] + SumOver(S \ {e}, f)

\* filters.gaussian_filter(1000 * indicator, sigma): the separable filter, the
\* three axis passes folded into one sum.  Integer arithmetic: along an axis of
\* length 1 every tap lands on the one voxel and the normalised kernel sums to
\* 1; along a longer axis the taps are not normalised, so the value is the
\* filter's output times a positive factor that is the same at every voxel
\* and for every indicator of the shape
GaussianBlur(indicator, shape, weights) ==
  LET r == Len(weights) - 1
      K(axis) == [x \in 0..(shape[axis] - 1) |->
                   [y \in 0..(shape[axis] - 1) |->
                     IF shape[axis] = 1 THEN 1
                     ELSE AxisWeight(weights, x, y, shape[axis], -r)]]
      K1 == K(1)
      K2 == K(2)
      K3 == K(3)
  IN  [c \in Coords(shape) |->
        SumOver(indicator,
                [u \in indicator |-> K1[c[1]][u[1]] * K2[c[2]][u[2]] * K3[c[3]][u[3]]])]

\* np.argmax over a sequence of values, 1-based: the first position of the maximum
ArgMax(vals) ==
  MinOf({i \in 1..Len(vals) : \A j \in 1..Len(vals) : vals[j] <= vals[i]})

(***************************************************************************)
(* fill_unknown_labels_per_hemi                                            *)
(***************************************************************************)
fill_unknown_labels_per_hemi(gt, shape, unknown_label, cortex_stop) ==
  LET unknown == {c \in Coords(shape) : gt[c] = unknown_label}
      shell == DilationShell(unknown, shape)
      list_parcels ==
        Sorted({p \in {gt[c] : c \in shell} : p > unknown_label /\ p < cortex_stop})
      blur_vals ==
        [idx \in 1..Len(list_parcels) |->
          GaussianBlur({c \in Coords(shape) : gt[c] = list_parcels[idx]}, shape, GaussWeights5)]
  IN  IF Len(list_parcels) = 0
      THEN \* np.argmax over an axis of length 0
           [status |-> "raise", error |-> "ValueError", vol |-> gt]
      ELSE [status |-> "ok", error |-> NoError,
            vol |-> [c \in Coords(shape) |->
                      IF gt[c] = unknown_label
                      THEN list_parcels[ArgMax([idx \in 1..Len(list_parcels) |-> blur_vals[idx][c]])]
                      ELSE gt[c]]]

(***************************************************************************)
(* fuse_cortex_labels                                                      *)
(***************************************************************************)
RelateralizeList ==
  <<2014, 2028, 2012, 2016, 2002, 2023, 2017, 2024, 2010, 2013, 2025, 2022, 2021, 2005>>

\* aparc[mask] = aparc[mask] - 1000 with mask = (aparc >= 2000) & (aparc <= 2999)
Delateralize(aparc) ==
  [c \in DOMAIN aparc |->
    LET v == aparc[c] IN IF v >= 2000 /\ v <= 2999 THEN v - 1000 ELSE v]

\* the restore when aparc_temp aliases aparc instead of copying it: after the
\* shift no voxel of aparc_temp holds a listed ID
Relateralize_Aliased(aparc, aparc_temp, i) == aparc

\* aparc[aparc_temp == v] = v for the listed v, in source order
RECURSIVE Relateralize(_, _, _)
Relateralize(aparc, aparc_temp, i) ==
  IF i > Len(RelateralizeList) THEN aparc
  ELSE Relateralize([c \in DOMAIN aparc |->
                      IF aparc_temp[c] = RelateralizeList[i] THEN RelateralizeList[i] ELSE aparc[c]],
                    aparc_temp, i + 1)

Ok(vol) == [status |-> "ok", error |-> NoError, vol |-> vol]

\* if np.any(aparc == unknown_label): aparc = fill_unknown_labels_per_hemi(...)
\* on the outcome of the steps before it
FillIfAny(prev, shape, unknown_label, cortex_stop) ==
  IF prev.status = "raise" THEN prev
  ELSE IF AnyEq(prev.vol, unknown_label)
    THEN fill_unknown_labels_per_hemi(prev.vol, shape, unknown_label, cortex_stop)
  ELSE prev

\* the de-lateralization and the restore from aparc_temp, on the outcome of the
\* steps before them
FuseParcels(prev, aparc_temp) ==
  IF prev.status = "raise" THEN prev
  ELSE Ok(Relateralize(Delateralize(prev.vol), aparc_temp, 1))

\* vol is the state of the caller's array when the call returns or raises;
\* aparc_temp = aparc.copy() is the argument as passed
fuse_cortex_labels(aparc, shape) ==
  FuseParcels(
    FillIfAny(FillIfAny(Ok(clean_cortex_labels(aparc)), shape, 1000, 2000), shape, 2000, 3000),
    aparc)

(***************************************************************************)
(* LUT: a sequence of rows [ID, prefix, stem]; LabelName is prefix + stem, *)
(* so that LabelName.str.startswith(p) is prefix = p and                   *)
(* LabelName.str.removeprefix(p) is stem.                                  *)
(***************************************************************************)
Row(id, prefix, stem) == [ID |-> id, prefix |-> prefix, stem |-> stem]

BaseLut ==
  << Row(0, "", "Unknown"),
     Row(2, "Left-", "Cerebral-White-Matter"),
     Row(3, "Left-", "Cerebral-Cortex"),
     Row(41, "Right-", "Cerebral-White-Matter"),
     Row(42, "Right-", "Cerebral-Cortex"),
     Row(77, "", "WM-hypointensities"),
     Row(1003, "ctx-lh", "-caudalmiddlefrontal"),
     Row(1014, "ctx-lh", "-medialorbitofrontal"),
     Row(2014, "ctx-rh", "-medialorbitofrontal") >>

\* the sequence s without element i
DropRow(s, i) == [j \in 1..(Len(s) - 1) |-> IF j < i THEN s[j] ELSE s[j + 1]]

Reverse(s) == [j \in 1..Len(s) |-> s[Len(s) + 1 - j]]

\* rows of a sequence that satisfy a test, in order
RECURSIVE SelectRows(_, _, _)
SelectRows(s, keep, i) ==
  IF i > Len(s) THEN <<>>
  ELSE (IF keep[i] THEN <<s[i]>> ELSE <<>>) \o SelectRows(s, keep, i + 1)

\* left.merge(right, on="LabelName"): for each left row in order, the right
\* rows of the same stripped name in order
RECURSIVE Merge(_, _, _, _)
Merge(left, right, i, j) ==
  IF i > Len(left) THEN <<>>
  ELSE IF j > Len(right) THEN Merge(left, right, i + 1, 1)
  ELSE (IF left[i].stem = right[j].stem THEN << <<left[i].ID, right[j].ID>> >> ELSE <<>>)
       \o Merge(left, right, i, j + 1)

\* the returned dict, as the sequence of its (key, value) items in insertion order
unify_lateralized_labels(lut, combi) ==
  LET left == SelectRows(lut, [i \in 1..Len(lut) |-> lut[i].prefix = combi[1]], 1)
      right == SelectRows(lut, [i \in 1..Len(lut) |-> lut[i].prefix = combi[2]], 1)
  IN  Merge(left, right, 1, 1)

\* (lut["ID"].values, lut["ID"][~mask].values)
get_labels_from_lut(lut, label_extract) ==
  LET mask == [i \in 1..Len(lut) |-> lut[i].prefix \in Range(label_extract)]
      kept == SelectRows(lut, [i \in 1..Len(lut) |-> ~mask[i]], 1)
  IN  << [i \in 1..Len(lut) |-> lut[i].ID], [i \in 1..Len(kept) |-> kept[i].ID] >>

(***************************************************************************)
(* map_aparc_aseg2label and map_label2aparc_aseg                           *)
(***************************************************************************)
\* lut_aseg = np.zeros(max(labels) + 1); for idx, value in enumerate(labels):
\* lut_aseg[value] = idx  (a later entry of the same value overwrites).
\* The array is given by its length and by its element at v
LookupSize(labels) == MaxOf(Range(labels)) + 1

DenseLookup(labels, v) ==
  IF v \in Range(labels)
  THEN MaxOf({i \in 1..Len(labels) : labels[i] = v}) - 1
  ELSE 0

\* aseg[cc_mask] = aseg_nocc[cc_mask] with cc_mask = (aseg >= 251) & (aseg <= 255)
OverrideCC(aseg, aseg_nocc) ==
  IF aseg_nocc = None THEN aseg
  ELSE [c \in DOMAIN aseg |->
         LET v == aseg[c] IN IF v >= 251 /\ v <= 255 THEN aseg_nocc[c] ELSE v]

AsegTable == << <<1000, 3>>, <<2000, 42>>, <<80, 77>>, <<85, 0>>, <<62, 41>>, <<30, 2>>, <<72, 24>> >>

\* the loop with the pairs read the other way round: aseg[aseg == right] = left
MapSagittalLabels_RightToLeft(aseg, sagittal_lut_dict) ==
  ApplySubstitutions(aseg,
                     [i \in 1..Len(sagittal_lut_dict) |->
                       <<sagittal_lut_dict[i][2], sagittal_lut_dict[i][1]>>],
                     1)

\* for left, right in sagittal_lut_dict.items(): aseg[aseg == left] = right
MapSagittalLabels(aseg, sagittal_lut_dict) ==
  ApplySubstitutions(aseg, sagittal_lut_dict, 1)

Raise(error, vol, at_lookup) ==
  [status |-> "raise", error |-> error, aseg |-> vol, at_lookup |-> at_lookup,
   mapped_aseg |-> None, mapped_aseg_sag |-> None]

\* set(labels).issuperset(np.unique(aseg)), with np.all(aseg <= max(labels))
\* in its place
SupersetCheck_RangeOnly(labels, aseg) ==
  \A c \in DOMAIN aseg : aseg[c] <= MaxOf(Range(labels))

\* set(labels).issuperset(np.unique(aseg))
SupersetCheck(labels, aseg) == Unique(aseg) \subseteq Range(labels)

\* the two assertions of the "aseg" branch
AsegAssertions(aseg) ==
  IF \E c \in DOMAIN aseg : 251 <= aseg[c]
    THEN [status |-> "raise", error |-> "AssertionError: CC classes", vol |-> aseg]
  ELSE IF ~(AnyEq(aseg, 3) /\ AnyEq(aseg, 42))
    THEN [status |-> "raise", error |-> "AssertionError: no cortical marker", vol |-> aseg]
  ELSE Ok(aseg)

\* the branch on processing
Preprocess(aseg, shape, processing) ==
  IF processing = "aparc" THEN fuse_cortex_labels(aseg, shape)
  ELSE AsegAssertions(ApplySubstitutions(aseg, AsegTable, 1))

\* lut_aseg.ravel()[aseg.ravel()].reshape((h, w, d))
LookUp(labels, aseg) == [c \in DOMAIN aseg |-> DenseLookup(labels, aseg[c])]

\* the array the sagittal lookup is applied to
SagittalIds(aseg, sagittal_lut_dict, processing) ==
  MapSagittalLabels(IF processing = "aparc" THEN Delateralize(aseg) ELSE aseg,
                    sagittal_lut_dict)

\* the sagittal lookup and the return
SagittalStage(aseg, mapped_aseg, sag, labels_sag) ==
  IF \E c \in DOMAIN sag : sag[c] >= LookupSize(labels_sag)
  THEN Raise("IndexError", sag, aseg)
  ELSE [status |-> "ok", error |-> NoError, aseg |-> sag, at_lookup |-> aseg,
        mapped_aseg |-> mapped_aseg, mapped_aseg_sag |-> LookUp(labels_sag, sag)]

\* the label-list assertion and the two lookups, on the outcome of the
\* preprocessing
MapToLabelSpaces(pre, labels, labels_sag, sagittal_lut_dict, processing) ==
  IF pre.status = "raise" THEN Raise(pre.error, pre.vol, None)
  ELSE IF ~SupersetCheck(labels, pre.vol)
    THEN Raise("AssertionError: classes not listed", pre.vol, None)
  ELSE SagittalStage(pre.vol, LookUp(labels, pre.vol),
                     SagittalIds(pre.vol, sagittal_lut_dict, processing),
                     labels_sag)

\* aseg of the result is the state of the caller's array when the call returns
\* or raises; at_lookup is the array the full-space lookup is applied to
map_aparc_aseg2label(aseg, shape, labels, labels_sag, sagittal_lut_dict, aseg_nocc, processing) ==
  MapToLabelSpaces(Preprocess(OverrideCC(aseg, aseg_nocc), shape, processing),
                   labels, labels_sag, sagittal_lut_dict, processing)

\* labels[mapped_aseg - 1] in place of labels[mapped_aseg]; index -1 is the
\* last element
map_label2aparc_aseg_Shifted(mapped_aseg, labels) ==
  [c \in DOMAIN mapped_aseg |-> labels[((mapped_aseg[c] - 1) % Len(labels)) + 1]]

\* labels[mapped_aseg]
map_label2aparc_aseg(mapped_aseg, labels) ==
  [c \in DOMAIN mapped_aseg |-> labels[mapped_aseg[c] + 1]]

(***************************************************************************)
(* sagittal_coronal_remap_lookup, infer_mapping_from_lut,                  *)
(* map_prediction_sagittal2full                                            *)
(***************************************************************************)
\* the dict of sagittal_coronal_remap_lookup; a key outside it is a KeyError
sagittal_coronal_remap_lookup ==
  [x \in {2, 3, 4, 5, 7, 8, 10, 11, 12, 13, 17, 18, 26, 28, 31} |->
    CASE x = 2 -> 41 [] x = 3 -> 42 [] x = 4 -> 43 [] x = 5 -> 44 [] x = 7 -> 46
      [] x = 8 -> 47 [] x = 10 -> 49 [] x = 11 -> 50 [] x = 12 -> 51 [] x = 13 -> 52
      [] x = 17 -> 53 [] x = 18 -> 54 [] x = 26 -> 58 [] x = 28 -> 60 [] x = 31 -> 63]

\* the derivation with labels, labels_sag = get_labels_from_lut(lut) in place
\* of the unpacked dict, an unresolved label keeping index 0
infer_mapping_from_lut_Defaulted(num_classes_full, lut) ==
  LET full == get_labels_from_lut(lut, <<"Left-", "ctx-rh">>)[1]
      sag == get_labels_from_lut(lut, <<"Left-", "ctx-rh">>)[2]
      Where(v) == {i \in 1..Len(sag) : sag[i] = v}
      Remap(v) == IF v \in DOMAIN sagittal_coronal_remap_lookup
                  THEN sagittal_coronal_remap_lookup[v] ELSE v
      Index(v) ==
        IF Where(v) # {} THEN MinOf(Where(v)) - 1
        ELSE IF Where(v - 1000) # {} THEN MinOf(Where(v - 1000)) - 1
        ELSE IF Where(Remap(v)) # {} THEN MinOf(Where(Remap(v))) - 1
        ELSE 0
  IN  [status |-> "ok", error |-> NoError,
       idx_list |-> [i \in 1..num_classes_full |->
                       IF i <= Len(full) THEN Index(full[i]) ELSE 0]]

\* labels, labels_sag = unify_lateralized_labels(lut) unpacks the keys of the
\* returned dict: a ValueError unless it has exactly two keys; with two keys
\* labels is an integer and len(labels) is a TypeError
infer_mapping_from_lut(num_classes_full, lut) ==
  LET items == unify_lateralized_labels(lut, <<"Left-", "Right-">>)
  IN  IF Cardinality({items[i][1] : i \in 1..Len(items)}) # 2
      THEN [status |-> "raise", error |-> "ValueError", idx_list |-> None]
      ELSE [status |-> "raise", error |-> "TypeError", idx_list |-> None]

IdxList96 ==
  <<0, 5, 6, 7, 8, 9, 10, 11, 12, 13, 1, 2, 3, 14, 15, 4, 16, 17, 18, 5, 6, 7, 8,
    9, 10, 11, 12, 13, 14, 15, 16, 17, 18, 19, 20, 21, 22, 23, 24, 25, 26, 27,
    28, 29, 30, 31, 32, 33, 34, 35, 36, 37, 38, 39, 40, 41, 42, 43, 44, 45, 46,
    47, 48, 49, 50, 20, 21, 22, 23, 24, 25, 26, 27, 28, 29, 30, 31, 32, 33, 34,
    35, 36, 37, 38, 39, 40, 41, 42, 43, 44, 45, 46, 47, 48, 49, 50>>

IdxList51 ==
  <<0, 5, 6, 7, 8, 9, 10, 11, 12, 13, 1, 2, 3, 14, 15, 4, 16, 17, 18, 5, 6, 7, 8,
    9, 10, 11, 12, 13, 14, 15, 16, 17, 18, 19, 20, 21, 22, 23, 24, 25, 26, 27,
    28, 29, 30, 31, 32, 33, 34, 35, 36, 37, 38, 39, 40, 41, 42, 43, 44, 45, 46,
    47, 48, 49, 50, 20, 22, 27, 29, 30, 31, 33, 34, 38, 39, 40, 41, 42, 45>>

\* the 21-class table with the entries of full indices 5 and 6 exchanged
IdxList21_Exchanged ==
  <<0, 5, 6, 7, 8, 10, 9, 11, 12, 13, 14, 1, 2, 3, 15, 16, 4, 17, 18, 19, 5, 6, 7,
    8, 9, 10, 11, 12, 13, 14, 15, 16, 17, 18, 19, 20>>

IdxList21 ==
  <<0, 5, 6, 7, 8, 9, 10, 11, 12, 13, 14, 1, 2, 3, 15, 16, 4, 17, 18, 19, 5, 6, 7,
    8, 9, 10, 11, 12, 13, 14, 15, 16, 17, 18, 19, 20>>

\* prediction_sag[:, idx_list, :, :] on the class axis of one voxel
Gather(prediction_sag, idx_list) ==
  IF \E j \in 1..Len(idx_list) : idx_list[j] >= Len(prediction_sag)
  THEN [status |-> "raise", error |-> "IndexError", idx_list |-> idx_list,
        prediction_full |-> None]
  ELSE [status |-> "ok", error |-> NoError, idx_list |-> idx_list,
        prediction_full |-> [j \in 1..Len(idx_list) |-> prediction_sag[idx_list[j] + 1]]]

map_prediction_sagittal2full(prediction_sag, num_classes, lut) ==
  IF num_classes = 96 THEN Gather(prediction_sag, IdxList96)
  ELSE IF num_classes = 51 THEN Gather(prediction_sag, IdxList51)
  ELSE IF num_classes = 21 THEN Gather(prediction_sag, IdxList21)
  ELSE IF lut = None
    THEN [status |-> "raise", error |-> "AssertionError: lut is not defined",
          idx_list |-> None, prediction_full |-> None]
  ELSE LET inferred == infer_mapping_from_lut(num_classes, lut)
       IN  IF inferred.status = "raise"
           THEN [status |-> "raise", error |-> inferred.error,
                 idx_list |-> None, prediction_full |-> None]
           ELSE Gather(prediction_sag, inferred.idx_list)

(***************************************************************************)
(* bbox_3d                                                                 *)
(***************************************************************************)
\* np.where(np.any(img, axis=<the other two>))[0], as a set
NonZeroAlong(img, shape, axis) ==
  {c[axis] : c \in {e \in Coords(shape) : img[e] # 0}}

\* x[[0, -1]] of an empty array is an IndexError
bbox_3d(img, shape) ==
  LET r == NonZeroAlong(img, shape, 1)
      c == NonZeroAlong(img, shape, 2)
      z == NonZeroAlong(img, shape, 3)
  IN  IF r = {} \/ c = {} \/ z = {}
      THEN [status |-> "raise", error |-> "IndexError", box |-> None]
      ELSE [status |-> "ok", error |-> NoError,
            box |-> <<MinOf(r), MaxOf(r), MinOf(c), MaxOf(c), MinOf(z), MaxOf(z)>>]

(***************************************************************************)
(* get_largest_cc                                                          *)
(***************************************************************************)
\* connectivity=3: voxels that differ by at most 1 along every axis
Adjacent26(a, b) == a # b /\ \A k \in 1..3 : Abs(a[k] - b[k]) <= 1

RECURSIVE Grow(_, _)
Grow(region, foreground) ==
  LET more == {c \in foreground \ region : \E u \in region : Adjacent26(c, u)}
  IN  IF more = {} THEN region ELSE Grow(region \cup more, foreground)

\* position of a voxel in C (row-major) order
Raster(c, shape) == c[1] * shape[2] * shape[3] + c[2] * shape[3] + c[3]

\* skimage.measure.label(segmentation, connectivity=3, background=0) on a
\* binary volume: 0 on the background, components numbered from 1 in the
\* order in which a raster scan meets them
label(segmentation, shape) ==
  LET foreground == {c \in Coords(shape) : segmentation[c] # 0}
      first(region) == MinOf({Raster(c, shape) : c \in region})
      components == {Grow({c}, foreground) : c \in foreground}
      firsts == {first(k) : k \in components}
  IN  [c \in Coords(shape) |->
        IF c \notin foreground THEN 0
        ELSE LET own == CHOOSE k \in components : c \in k
             IN  1 + Cardinality({f \in firsts : f < first(own)})]

\* np.bincount(labels.flat), 1-based: element i+1 counts the voxels of label i
bincount(labels) ==
  [i \in 1..(MaxOf(Unique(labels)) + 1) |->
    Cardinality({c \in DOMAIN labels : labels[c] = i - 1})]

get_largest_cc(segmentation, shape) ==
  LET labels == label(segmentation, shape)
      counts == bincount(labels)
      background == ArgMax(counts) - 1
      masked == [counts EXCEPT ![background + 1] = -1]
      largest == ArgMax(masked) - 1
  IN  [c \in Coords(shape) |-> labels[c] = largest]

(***************************************************************************)
(* split_cortex_labels                                                     *)
(***************************************************************************)
\* gaussian_filter weights for sigma = 3 (radius int(4 * 3 + 0.5) = 12),
\* rounded to 1/100000, k = 0..12
GaussWeights3 ==
  <<100000, 94596, 80074, 60653, 41111, 24935, 13534, 6573, 2857, 1111, 387,
    120, 34>>

labels_list ==
  <<1003, 1006, 1007, 1008, 1009, 1011, 1015, 1018, 1019, 1020, 1025, 1026, 1027,
    1028, 1029, 1030, 1031, 1034, 1035>>

ProbClasses == <<1011, 1019, 1026, 1029>>

\* aparc == id, as a 0/1 volume
Indicator(aparc, id) == [c \in DOMAIN aparc |-> IF aparc[c] = id THEN 1 ELSE 0]

\* regionprops(label(mask, background=0))[0], as the set of its voxels: the
\* component labelled 1; empty when the mask is all False ([0] is then an
\* IndexError)
FirstRegion(mask, shape) ==
  LET labelled == label([c \in Coords(shape) |-> IF mask[c] THEN 1 ELSE 0], shape)
  IN  {c \in Coords(shape) : labelled[c] = 1}

\* region.centroid times the voxel count of the region, along one axis
CoordSum(region, axis) == SumOver(region, [c \in region |-> c[axis]])

\* squared Euclidean distance between the centroids of two regions, times
\* (na * nb * nc)^2 for voxel counts na, nb of the regions and nc of a third
SqDist(a, b, nc) ==
  LET na == Cardinality(a)
      nb == Cardinality(b)
      d(axis) == (CoordSum(a, axis) * nb - CoordSum(b, axis) * na) * nc
  IN  d(1) * d(1) + d(2) * d(2) + d(3) * d(3)

\* norm(region.centroid - centroid_rh) < norm(region.centroid - centroid_lh)
CloserToRight(region, rh, lh) ==
  SqDist(region, rh, Cardinality(lh)) < SqDist(region, lh, Cardinality(rh))

\* one pass of the loop over labels_list: every component of
\* aparc == label_current; regionprops of an all-zero label image is empty
SplitLabel(aparc, shape, label_current, rh, lh) ==
  LET foreground == {c \in Coords(shape) : aparc[c] = label_current}
  IN  IF ~AnyEq(aparc, label_current) THEN aparc
      ELSE [c \in Coords(shape) |->
             IF c \in foreground /\ CloserToRight(Grow({c}, foreground), rh, lh)
             THEN label_current + 1000
             ELSE aparc[c]]

RECURSIVE SplitComponents(_, _, _, _, _)
SplitComponents(aparc, shape, rh, lh, i) ==
  IF i > Len(labels_list) THEN aparc
  ELSE SplitComponents(SplitLabel(aparc, shape, labels_list[i], rh, lh), shape, rh, lh, i + 1)

\* np.argmax over (aseg_lh, aseg_rh) at every voxel with the right indicator
\* listed first
lh_rh_split_RightFirst(aparc, shape) ==
  LET aseg_lh == GaussianBlur({c \in Coords(shape) : aparc[c] = 2}, shape, GaussWeights3)
      aseg_rh == GaussianBlur({c \in Coords(shape) : aparc[c] = 41}, shape, GaussWeights3)
  IN  [c \in Coords(shape) |-> 2 - ArgMax(<<aseg_rh[c], aseg_lh[c]>>)]

\* np.argmax over (aseg_lh, aseg_rh) at every voxel: 0 for left, 1 for right
lh_rh_split(aparc, shape) ==
  LET aseg_lh == GaussianBlur({c \in Coords(shape) : aparc[c] = 2}, shape, GaussWeights3)
      aseg_rh == GaussianBlur({c \in Coords(shape) : aparc[c] = 41}, shape, GaussWeights3)
  IN  [c \in Coords(shape) |-> ArgMax(<<aseg_lh[c], aseg_rh[c]>>) - 1]

\* the loop over the problematic classes
SplitVoxels(aparc, split) ==
  [c \in DOMAIN aparc |->
    IF \E k \in 1..Len(ProbClasses) : aparc[c] \in {ProbClasses[k], ProbClasses[k] + 1000}
    THEN LET prob_class_lh == IF aparc[c] >= 2000 THEN aparc[c] - 1000 ELSE aparc[c]
         IN  IF split[c] = 0 THEN prob_class_lh ELSE prob_class_lh + 1000
    ELSE aparc[c]]

SplitFrom(aparc, components, shape) ==
  [status |-> "ok", error |-> NoError, components |-> components,
   vol |-> SplitVoxels(components, lh_rh_split(components, shape))]

split_cortex_labels(aparc, shape) ==
  LET rh == FirstRegion(get_largest_cc(Indicator(aparc, 41), shape), shape)
      lh == FirstRegion(get_largest_cc(Indicator(aparc, 2), shape), shape)
  IN  IF rh = {} \/ lh = {}
      THEN [status |-> "raise", error |-> "IndexError", components |-> aparc, vol |-> aparc]
      ELSE SplitFrom(aparc, SplitComponents(aparc, shape, rh, lh, 1), shape)

(***************************************************************************)
(* create_weight_mask, deep_sulci_and_wm_strand_mask, cortex_border_mask.  *)
(* Weights are rationals: the model keeps them as integers over a common   *)
(* denominator, the field scale of the result.                             *)
(***************************************************************************)
RECURSIVE Product(_, _)
Product(counts, i) == IF i > Len(counts) THEN 1 ELSE counts[i] * Product(counts, i + 1)

\* np.unique(mapped_aseg, return_counts=True)[1]
Counts(mapped_aseg) ==
  LET unique == Sorted(Unique(mapped_aseg))
  IN  [i \in 1..Len(unique) |-> Cardinality({c \in DOMAIN mapped_aseg : mapped_aseg[c] = unique[i]})]

\* twice np.median(counts)
TwiceMedian(counts) ==
  LET ordered == [i \in 1..Len(counts) |->
                   CHOOSE v \in Range(counts) :
                     /\ Cardinality({j \in 1..Len(counts) : counts[j] < v}) < i
                     /\ Cardinality({j \in 1..Len(counts) : counts[j] <= v}) >= i]
      n == Len(counts)
  IN  IF n % 2 = 1 THEN 2 * ordered[(n + 1) \div 2]
      ELSE ordered[n \div 2] + ordered[n \div 2 + 1]

\* the common denominator of median / counts
WeightScale(counts) == 2 * Product(counts, 1)

\* class_wise_weights = np.median(counts) / counts, capped at max_weight;
\* times WeightScale(counts)
class_wise_weights(counts, max_weight) ==
  [i \in 1..Len(counts) |->
    MinOf({(TwiceMedian(counts) * Product(counts, 1)) \div counts[i],
           max_weight * WeightScale(counts)})]

\* one component of np.gradient(mapped_aseg) is non-zero at c: central
\* difference inside, one-sided difference at the two ends of the axis
GradientNonZero(mapped_aseg, shape, c, axis) ==
  LET lo == IF c[axis] = 0 THEN c ELSE [c EXCEPT ![axis] = c[axis] - 1]
      hi == IF c[axis] = shape[axis] - 1 THEN c ELSE [c EXCEPT ![axis] = c[axis] + 1]
  IN  mapped_aseg[hi] # mapped_aseg[lo]

\* binary_dilation(mask, structure=np.ones((3, 3, 3))), mask as a set of voxels
Dilation(mask, shape) ==
  {c \in Coords(shape) : \E u \in mask : \A k \in 1..3 : Abs(c[k] - u[k]) <= 1}

\* binary_erosion(mask, structure=np.ones((3, 3, 3))) with border_value = 0:
\* a voxel stays when its 27 neighbours are in the volume and in the mask
Erosion(mask, shape) ==
  {c \in mask :
     /\ \A k \in 1..3 : c[k] >= 1 /\ c[k] <= shape[k] - 2
     /\ \A u \in Coords(shape) : (\A k \in 1..3 : Abs(c[k] - u[k]) <= 1) => u \in mask}

deep_sulci_and_wm_strand_mask(volume, shape, ctx_thresh) ==
  LET empty_im == {c \in Coords(shape) : volume[c] > ctx_thresh}
      eroded == Erosion(Dilation(empty_im, shape), shape)
  IN  (empty_im \ eroded) \cup (eroded \ empty_im)

cortex_border_mask(volume, shape, ctx_thresh) ==
  LET bm == {c \in Coords(shape) : volume[c] >= 1}
      eroded == Erosion(bm, shape)
  IN  {c \in (bm \ eroded) \cup (eroded \ bm) : ~(volume[c] <= ctx_thresh)}

\* class_wise_weights[mapped_aseg.ravel()]: the label value is the index
ClassWeightMask(mapped_aseg, counts, max_weight) ==
  [c \in DOMAIN mapped_aseg |-> class_wise_weights(counts, max_weight)[mapped_aseg[c] + 1]]

\* weights_mask += max_edge_weight * (|gradient| > 0)
AddGradient(weights_mask, mapped_aseg, shape, amount) ==
  [c \in DOMAIN weights_mask |->
    weights_mask[c]
      + (IF \E axis \in 1..3 : GradientNonZero(mapped_aseg, shape, c, axis) THEN amount ELSE 0)]

\* weights_mask += mask * amount
AddMask(weights_mask, mask, amount) ==
  [c \in DOMAIN weights_mask |-> weights_mask[c] + (IF c \in mask THEN amount ELSE 0)]

\* the branch on max_hires_weight, an Optional[int]: None or a sequence of
\* one integer
AddHires(weights_mask, mapped_aseg, shape, max_hires_weight, ctx_thresh, cortex_mask, scale) ==
  IF max_hires_weight = None THEN weights_mask
  ELSE IF ~cortex_mask
    THEN AddMask(weights_mask, deep_sulci_and_wm_strand_mask(mapped_aseg, shape, ctx_thresh),
                 max_hires_weight[1] * scale)
  ELSE AddMask(AddMask(weights_mask,
                       deep_sulci_and_wm_strand_mask(mapped_aseg, shape, ctx_thresh),
                       max_hires_weight[1] * scale),
               cortex_border_mask(mapped_aseg, shape, ctx_thresh),
               (max_hires_weight[1] \div 2) * scale)

\* uniform_filter(weights_mask, size=3), mode "reflect", times 27
uniform_filter(weights_mask, shape) ==
  LET window == {<<i, j, k>> : i \in -1..1, j \in -1..1, k \in -1..1}
  IN  [c \in Coords(shape) |->
        SumOver(window,
                [o \in window |->
                  weights_mask[<<Reflect(c[1] + o[1], shape[1]), Reflect(c[2] + o[2], shape[2]),
                                 Reflect(c[3] + o[3], shape[3])>>]])]

Weighted(weights_mask, scale, mean_filter, shape) ==
  IF mean_filter
  THEN [status |-> "ok", error |-> NoError, scale |-> 27 * scale,
        weights_mask |-> uniform_filter(weights_mask, shape)]
  ELSE [status |-> "ok", error |-> NoError, scale |-> scale, weights_mask |-> weights_mask]

NoWeights(error) == [status |-> "raise", error |-> error, scale |-> 1, weights_mask |-> None]

create_weight_mask(mapped_aseg, shape, max_weight, max_edge_weight, max_hires_weight, ctx_thresh, mean_filter, cortex_mask, gradient) ==
  LET counts == Counts(mapped_aseg)
      scale == WeightScale(counts)
  IN  IF \E c \in DOMAIN mapped_aseg : mapped_aseg[c] >= Len(counts)
      THEN NoWeights("IndexError")
      ELSE IF gradient /\ \E axis \in 1..3 : shape[axis] < 2
        THEN \* np.gradient needs two elements along every axis
             NoWeights("ValueError")
      ELSE Weighted(
             AddHires(IF gradient
                      THEN AddGradient(ClassWeightMask(mapped_aseg, counts, max_weight),
                                       mapped_aseg, shape, max_edge_weight * scale)
                      ELSE ClassWeightMask(mapped_aseg, counts, max_weight),
                      mapped_aseg, shape, max_hires_weight, ctx_thresh, cortex_mask, scale),
             scale, mean_filter, shape)

(***************************************************************************)
(* transform_axial, transform_sagittal                                     *)
(***************************************************************************)
\* the position k with axes[k] = axis (axes a permutation of 0, 1, 2)
AxisAt(axes, axis) == CHOOSE k \in 1..3 : axes[k] = axis

\* np.moveaxis(vol, source, destination): axis source[k] of vol becomes axis
\* destination[k] of the result
moveaxis(vol, shape, source, destination) ==
  LET From(axis) == source[AxisAt(destination, axis)] + 1
      moved == <<shape[From(0)], shape[From(1)], shape[From(2)]>>
      To(axis) == destination[AxisAt(source, axis)] + 1
  IN  [shape |-> moved,
       vol |-> [o \in Coords(moved) |-> vol[<<o[To(0)], o[To(1)], o[To(2)]>>]]]

\* the backward branch moving the axes the forward way
transform_axial_ForwardTwice(vol, shape, coronal2axial) ==
  moveaxis(vol, shape, <<0, 1, 2>>, <<1, 2, 0>>)

transform_axial(vol, shape, coronal2axial) ==
  IF coronal2axial
  THEN moveaxis(vol, shape, <<0, 1, 2>>, <<1, 2, 0>>)
  ELSE moveaxis(vol, shape, <<0, 1, 2>>, <<2, 0, 1>>)

transform_sagittal(vol, shape, coronal2sagittal) ==
  IF coronal2sagittal
  THEN moveaxis(vol, shape, <<0, 1, 2>>, <<2, 1, 0>>)
  ELSE moveaxis(vol, shape, <<0, 1, 2>>, <<2, 1, 0>>)

(***************************************************************************)
(* Blank-slice filter: filter_blank_slices_thick.  An array is a record of  *)
(* its shape and its values.                                               *)
(***************************************************************************)
Coords4(shape) ==
  {<<x, y, z, t>> : x \in 0..(shape[1] - 1), y \in 0..(shape[2] - 1),
                    z \in 0..(shape[3] - 1), t \in 0..(shape[4] - 1)}

\* np.sum(label_vol, axis=(0, 1)) at slice z: the sum of the label values
SliceSum(label_vol, z) ==
  LET slice == {c \in Coords(label_vol.shape) : c[3] = z}
  IN  SumOver(slice, [c \in slice |-> label_vol.vol[c]])

\* np.sum(label_vol, axis=(0, 1)) > threshold
select_slices(label_vol, threshold) ==
  [z \in 0..(label_vol.shape[3] - 1) |-> SliceSum(label_vol, z) > threshold]

\* the indices a boolean index selects, in ascending order
SelectedIndices(select) ==
  LET kept == {z \in DOMAIN select : select[z]}
  IN  [k \in 1..Cardinality(kept) |->
        CHOOSE z \in kept : Cardinality({y \in kept : y < z}) = k - 1]

\* array[:, :, select]
BooleanIndex3(array, select) ==
  LET idx == SelectedIndices(select)
      kept == <<array.shape[1], array.shape[2], Len(idx)>>
  IN  [shape |-> kept,
       vol |-> [c \in Coords(kept) |-> array.vol[<<c[1], c[2], idx[c[3] + 1]>>]]]

\* array[:, :, select, :]
BooleanIndex4(array, select) ==
  LET idx == SelectedIndices(select)
      kept == <<array.shape[1], array.shape[2], Len(idx), array.shape[4]>>
  IN  [shape |-> kept,
       vol |-> [c \in Coords4(kept) |-> array.vol[<<c[1], c[2], idx[c[3] + 1], c[4]>>]]]

NoSlices(error) ==
  [status |-> "raise", error |-> error, img_vol |-> None, label_vol |-> None,
   weight_vol |-> None]

\* a boolean index whose length differs from the length of the axis raises
\* IndexError
filter_blank_slices_thick(img_vol, label_vol, weight_vol, threshold) ==
  LET select == select_slices(label_vol, threshold)
  IN  IF \/ img_vol.shape[3] # label_vol.shape[3]
         \/ weight_vol.shape[3] # label_vol.shape[3]
      THEN NoSlices("IndexError")
      ELSE [status |-> "ok", error |-> NoError,
            img_vol |-> BooleanIndex4(img_vol, select),
            label_vol |-> BooleanIndex3(label_vol, select),
            weight_vol |-> BooleanIndex3(weight_vol, select)]

(***************************************************************************)
(* State.                                                                  *)
(***************************************************************************)
VARIABLES
  call,              \* the function the caller invokes
  pc,                \* "ready", "returned", "raised" or "restored"
  shape,             \* shape of the volume
  aseg,              \* the caller's label volume (mutated in place by the calls)
  aseg_input,        \* the volume as it was passed
  labels,            \* full label list
  labels_sag,        \* sagittal label list
  sagittal_lut_dict, \* left -> right items
  aseg_nocc,         \* CC-free ground truth or None
  processing,        \* "aparc" or "aseg"
  params,            \* the arguments of the call that have no variable of their own
  result,            \* what the call returned or raised
  restored,          \* map_label2aparc_aseg(mapped_aseg, labels) or None
  segmentation,      \* argument of get_largest_cc
  img,               \* argument of bbox_3d
  prediction_sag,    \* class axis of the sagittal prediction at one voxel
  num_classes,       \* number of sagittal classes
  lut_table          \* the lut argument: look-up table or None

mapVars == <<aseg, aseg_input, labels, labels_sag, sagittal_lut_dict, aseg_nocc,
             processing, restored>>

volVars == <<segmentation, img>>

sagVars == <<prediction_sag, num_classes, lut_table>>

vars == <<call, pc, shape, params, result, mapVars, volVars, sagVars>>

IdleMap ==
  /\ aseg = None
  /\ aseg_input = None
  /\ labels = None
  /\ labels_sag = None
  /\ sagittal_lut_dict = None
  /\ aseg_nocc = None
  /\ processing = "none"
  /\ restored = None

IdleVol ==
  /\ segmentation = None
  /\ img = None

IdleSag ==
  /\ prediction_sag = None
  /\ num_classes = 0
  /\ lut_table = None

(***************************************************************************)
(* Inputs of the label-mapping specification.                              *)
(***************************************************************************)
LabelShape == <<MaxLabelVoxels, 1, 1>>

VolumeIds == {0, 2, 41, 80, 253, 1000, 1003, 2000, 2003, 2014}

FuseIds == {0, 80, 1000, 1003, 2000, 2003, 2005, 2014}

LutFamily ==
  {BaseLut, Reverse(BaseLut)} \cup {DropRow(BaseLut, i) : i \in {4, 6, 8}}

\* the arguments the caller derives from a LUT:
\* labels, labels_sag = get_labels_from_lut(lut) and
\* sagittal_lut_dict = unify_lateralized_labels(lut)
LabelArguments ==
  {<<get_labels_from_lut(lut, <<"Left-", "ctx-rh">>)[1],
     get_labels_from_lut(lut, <<"Left-", "ctx-rh">>)[2],
     unify_lateralized_labels(lut, <<"Left-", "Right-">>)>> : lut \in LutFamily}

NoccVolume == [c \in Coords(LabelShape) |-> 2]

NoResult == [status |-> "none"]

NoParams == [unknown_label |-> 0, cortex_stop |-> 0]

InitMap ==
  /\ call \in {"map_aparc_aseg2label", "fuse_cortex_labels"}
  /\ pc = "ready"
  /\ shape = LabelShape
  /\ aseg \in [Coords(LabelShape) ->
                 IF call = "map_aparc_aseg2label" THEN VolumeIds ELSE FuseIds]
  /\ aseg_input = aseg
  /\ IF call = "map_aparc_aseg2label"
     THEN /\ \E args \in LabelArguments :
               /\ labels = args[1]
               /\ labels_sag = args[2]
               /\ sagittal_lut_dict = args[3]
          /\ aseg_nocc \in {None, NoccVolume}
          /\ processing \in {"aparc", "aseg"}
     ELSE /\ labels = None
          /\ labels_sag = None
          /\ sagittal_lut_dict = None
          /\ aseg_nocc = None
          /\ processing = "none"
  /\ params = NoParams
  /\ result = NoResult
  /\ restored = None
  /\ IdleVol
  /\ IdleSag

(***************************************************************************)
(* Actions.                                                                *)
(***************************************************************************)
MapAparcAseg2Label ==
  /\ call = "map_aparc_aseg2label"
  /\ pc = "ready"
  /\ LET r == map_aparc_aseg2label(aseg, shape, labels, labels_sag, sagittal_lut_dict,
                                   aseg_nocc, processing)
     IN  /\ result' = r
         /\ aseg' = r.aseg
         /\ pc' = IF r.status = "ok" THEN "returned" ELSE "raised"
  /\ UNCHANGED <<call, shape, params, aseg_input, labels, labels_sag, sagittal_lut_dict,
                 aseg_nocc, processing, restored, volVars, sagVars>>

MapLabel2AparcAseg ==
  /\ call = "map_aparc_aseg2label"
  /\ pc = "returned"
  /\ restored' = map_label2aparc_aseg(result.mapped_aseg, labels)
  /\ pc' = "restored"
  /\ UNCHANGED <<call, shape, params, aseg, aseg_input, labels, labels_sag, sagittal_lut_dict,
                 aseg_nocc, processing, result, volVars, sagVars>>

FuseCortexLabels ==
  /\ call = "fuse_cortex_labels"
  /\ pc = "ready"
  /\ LET r == fuse_cortex_labels(aseg, shape)
     IN  /\ result' = r
         /\ aseg' = r.vol
         /\ pc' = IF r.status = "ok" THEN "returned" ELSE "raised"
  /\ UNCHANGED <<call, shape, params, aseg_input, labels, labels_sag, sagittal_lut_dict,
                 aseg_nocc, processing, restored, volVars, sagVars>>

NextMap == MapAparcAseg2Label \/ MapLabel2AparcAseg \/ FuseCortexLabels

SpecMap == InitMap /\ [][NextMap]_vars

(***************************************************************************)
(* Properties of the label mapping (SpecMap).                              *)
(***************************************************************************)
MapEnded == call = "map_aparc_aseg2label" /\ pc \in {"returned", "raised", "restored"}

\* IDs of the volume after the CC override and the mode-specific
\* preprocessing, once the call has ended
PreprocessedIds ==
  Unique(IF result.at_lookup # None THEN result.at_lookup ELSE result.aseg)

\* position (0-based) of an ID in a list of unique IDs
PositionIn(list, id) == (CHOOSE i \in 1..Len(list) : list[i] = id) - 1

\* C1 as stated: the call fails exactly when the preprocessed volume holds an
\* ID outside labels, and succeeds otherwise
C1_AsStated ==
  MapEnded => (result.status = "raise" <=> ~(PreprocessedIds \subseteq Range(labels)))

\* C1, amended: the call fails whenever the preprocessed volume holds an ID
\* outside labels; when every ID is in labels the superset assertion does not
\* fire; and whenever the call returns, every voxel is mapped to the position
\* of its ID in labels, distinct IDs receiving distinct indices
C1_SupersetAndBijection ==
  MapEnded =>
    /\ ~(PreprocessedIds \subseteq Range(labels)) => result.status = "raise"
    /\ PreprocessedIds \subseteq Range(labels)
         => result.error # "AssertionError: classes not listed"
    /\ result.status = "ok" =>
         /\ \A c \in Coords(shape) :
              /\ result.at_lookup[c] \in Range(labels)
              /\ result.mapped_aseg[c] = PositionIn(labels, result.at_lookup[c])
         /\ \A c, e \in Coords(shape) :
              (result.at_lookup[c] # result.at_lookup[e])
                => (result.mapped_aseg[c] # result.mapped_aseg[e])

C1_Witness ==
  /\ call = "map_aparc_aseg2label"
  /\ pc = "returned"
  /\ Cardinality(Unique(result.mapped_aseg)) = MaxLabelVoxels
  /\ \E c \in Coords(shape) : result.at_lookup[c] # aseg_input[c]

\* C2: mapping the dense indices back through labels recovers, at every
\* voxel, the ID the voxel held when the dense lookup was applied
C2_RoundTrip ==
  (call = "map_aparc_aseg2label" /\ pc = "restored") => restored = result.at_lookup

C2_Witness ==
  /\ call = "map_aparc_aseg2label"
  /\ pc = "restored"
  /\ Cardinality(Unique(restored)) >= 2
  /\ \E c \in Coords(shape) : result.mapped_aseg[c] > 0

\* C3 as stated: when the call aborts on the label-list assertion or on a
\* mode assertion, the caller's volume is as it was before the call
C3_NoPartialMutation ==
  (/\ call = "map_aparc_aseg2label"
   /\ pc = "raised"
   /\ result.error \in {"AssertionError: classes not listed",
                        "AssertionError: CC classes",
                        "AssertionError: no cortical marker"})
    => aseg = aseg_input

\* C4 as stated: whenever the call returns, every voxel of mapped_aseg_sag
\* with value 0 holds the ID labels_sag[0]
C4_NoSilentZero ==
  (call = "map_aparc_aseg2label" /\ pc \in {"returned", "restored"}) =>
    \A c \in Coords(shape) :
      result.mapped_aseg_sag[c] = 0 => result.aseg[c] = labels_sag[1]

\* C5: on return of fuse_cortex_labels a voxel whose original ID is on the
\* allow-list keeps it, every other voxel whose ID is in [2001,2999] ends with
\* ID-1000, and no ID in [2000,2999] outside the allow-list remains
AllowList ==
  {2002, 2005, 2010, 2012, 2013, 2014, 2016, 2017, 2021, 2022, 2023, 2024, 2025, 2028}

C5_Delateralization ==
  (call = "fuse_cortex_labels" /\ pc = "returned") =>
    \A c \in Coords(shape) :
      /\ aseg_input[c] \in AllowList => aseg[c] = aseg_input[c]
      /\ (aseg_input[c] \in 2001..2999 /\ aseg_input[c] \notin AllowList)
           => aseg[c] = aseg_input[c] - 1000
      /\ aseg[c] \in 2000..2999 => aseg[c] \in AllowList

C5_Witness ==
  /\ call = "fuse_cortex_labels"
  /\ pc = "returned"
  /\ {2014, 2003, 2000} \subseteq Unique(aseg_input)
  /\ {2014, 1003} \subseteq Unique(aseg)

(***************************************************************************)
(* Volumetric utilities: get_largest_cc, bbox_3d and the view transforms,  *)
(* forward then backward, on binary volumes of every shape of at most      *)
(* MaxMaskVoxels voxels.                                                   *)
(***************************************************************************)
InitVol ==
  /\ call \in {"get_largest_cc", "bbox_3d", "transform_axial", "transform_sagittal"}
  /\ pc = "ready"
  /\ shape \in Shapes(MaxMaskVoxels)
  /\ \E v \in [Coords(shape) -> {0, 1}] :
       /\ segmentation = IF call = "get_largest_cc" THEN v ELSE None
       /\ img = IF call = "get_largest_cc" THEN None ELSE v
  /\ params = NoParams
  /\ result = NoResult
  /\ IdleMap
  /\ IdleSag

GetLargestCC ==
  /\ call = "get_largest_cc"
  /\ pc = "ready"
  /\ result' = [status |-> "ok", error |-> NoError,
                largest_cc |-> get_largest_cc(segmentation, shape)]
  /\ pc' = "returned"
  /\ UNCHANGED <<call, shape, params, mapVars, volVars, sagVars>>

Bbox3d ==
  /\ call = "bbox_3d"
  /\ pc = "ready"
  /\ result' = bbox_3d(img, shape)
  /\ pc' = IF result'.status = "ok" THEN "returned" ELSE "raised"
  /\ UNCHANGED <<call, shape, params, mapVars, volVars, sagVars>>

\* transform(vol, True), then transform(<what it returned>, False)
Transformed(moved, forward) ==
  [status |-> "ok", error |-> NoError, vol |-> moved.vol, shape |-> moved.shape,
   forward |-> forward]

TransformAxial ==
  /\ call = "transform_axial"
  /\ \/ /\ pc = "ready"
        /\ result' = Transformed(transform_axial(img, shape, TRUE),
                                 transform_axial(img, shape, TRUE))
        /\ pc' = "forward"
     \/ /\ pc = "forward"
        /\ result' = Transformed(transform_axial(result.vol, result.shape, FALSE),
                                 result.forward)
        /\ pc' = "returned"
  /\ UNCHANGED <<call, shape, params, mapVars, volVars, sagVars>>

TransformSagittal ==
  /\ call = "transform_sagittal"
  /\ \/ /\ pc = "ready"
        /\ result' = Transformed(transform_sagittal(img, shape, TRUE),
                                 transform_sagittal(img, shape, TRUE))
        /\ pc' = "forward"
     \/ /\ pc = "forward"
        /\ result' = Transformed(transform_sagittal(result.vol, result.shape, FALSE),
                                 result.forward)
        /\ pc' = "returned"
  /\ UNCHANGED <<call, shape, params, mapVars, volVars, sagVars>>

NextVol == GetLargestCC \/ Bbox3d \/ TransformAxial \/ TransformSagittal

SpecVol == InitVol /\ [][NextVol]_vars

\* the foreground of the argument of get_largest_cc and its components
Foreground == {c \in Coords(shape) : segmentation[c] # 0}

ForegroundComponents == {Grow({c}, Foreground) : c \in Foreground}

\* C6 as stated: for a non-empty mask the result is exactly the boolean
\* volume of a foreground component of the highest voxel count
C6_LargestComponent ==
  (call = "get_largest_cc" /\ pc = "returned" /\ Foreground # {}) =>
    \E k \in ForegroundComponents :
      /\ \A other \in ForegroundComponents : Cardinality(other) <= Cardinality(k)
      /\ \A c \in Coords(shape) : result.largest_cc[c] <=> c \in k

\* C7 as stated: for an empty mask the result is all false
C7_EmptyMaskAllFalse ==
  (call = "get_largest_cc" /\ pc = "returned" /\ Foreground = {}) =>
    \A c \in Coords(shape) : ~result.largest_cc[c]

\* C8 as stated: bbox_3d does not raise on an all-zero volume, and for a
\* volume with a non-zero voxel it returns the minimum and maximum index of
\* the non-zero voxels along each axis
C8_BoundingBox ==
  (call = "bbox_3d" /\ pc \in {"returned", "raised"}) =>
    LET nonzero == {c \in Coords(shape) : img[c] # 0}
    IN  /\ result.status = "ok"
        /\ nonzero # {} =>
             \A axis \in 1..3 :
               /\ \E c \in nonzero : c[axis] = result.box[2 * axis - 1]
               /\ \E c \in nonzero : c[axis] = result.box[2 * axis]
               /\ \A c \in nonzero :
                    result.box[2 * axis - 1] <= c[axis] /\ c[axis] <= result.box[2 * axis]

(***************************************************************************)
(* Sagittal reconciliation: one-hot class axes of num_classes entries.     *)
(***************************************************************************)
OtherClassCounts == {6, 9}

OneHot(n, k) == [i \in 1..n |-> IF i = k + 1 THEN 1 ELSE 0]

InitSag ==
  /\ call = "map_prediction_sagittal2full"
  /\ pc = "ready"
  /\ shape = <<1, 1, 1>>
  /\ num_classes \in {21, 51, 96} \cup OtherClassCounts
  /\ \E k \in 0..(num_classes - 1) : prediction_sag = OneHot(num_classes, k)
  /\ IF num_classes \in OtherClassCounts
     THEN lut_table \in {None} \cup LutFamily
     ELSE lut_table = None
  /\ params = NoParams
  /\ result = NoResult
  /\ IdleMap
  /\ IdleVol

MapPredictionSagittal2Full ==
  /\ call = "map_prediction_sagittal2full"
  /\ pc = "ready"
  /\ result' = map_prediction_sagittal2full(prediction_sag, num_classes, lut_table)
  /\ pc' = IF result'.status = "ok" THEN "returned" ELSE "raised"
  /\ UNCHANGED <<call, shape, params, mapVars, volVars, sagVars>>

NextSag == MapPredictionSagittal2Full

SpecSag == InitSag /\ [][NextSag]_vars

\* full-space indices (0-based) at which the remapped prediction is 1
RoutedTo == {j \in 0..(Len(result.prediction_full) - 1) : result.prediction_full[j + 1] = 1}

\* C9 as stated, in each of its readings: for num_classes = 21 a one-hot
\* prediction at class index 5 is routed to index 10, or the table pairs
\* index 5 with 10
C9_AsStated ==
  (/\ call = "map_prediction_sagittal2full"
   /\ pc = "returned"
   /\ num_classes = 21
   /\ prediction_sag = OneHot(21, 5))
    => \/ 10 \in RoutedTo
       \/ result.idx_list[5 + 1] = 10
       \/ result.idx_list[10 + 1] = 5

\* C9, amended: for num_classes = 21 the table pairs full index 5 with
\* sagittal index 9 and full index 10 with sagittal index 14; a one-hot
\* prediction at sagittal class 5 is routed to the full indices 1 and 20, one
\* at class 9 to 5 and 24, one at class 14 to 10 and 29
C9_Table21 ==
  (call = "map_prediction_sagittal2full" /\ pc = "returned" /\ num_classes = 21) =>
    /\ result.idx_list[5 + 1] = 9
    /\ result.idx_list[10 + 1] = 14
    /\ prediction_sag = OneHot(21, 5) => RoutedTo = {1, 20}
    /\ prediction_sag = OneHot(21, 9) => RoutedTo = {5, 24}
    /\ prediction_sag = OneHot(21, 14) => RoutedTo = {10, 29}

C9_Witness ==
  /\ call = "map_prediction_sagittal2full"
  /\ pc = "returned"
  /\ num_classes = 21
  /\ prediction_sag = OneHot(21, 5)
  /\ RoutedTo = {1, 20}

\* the sagittal index of a full-space label: (a) the exact ID, (b) ID-1000,
\* (c) the hardcoded left-to-right correspondence of the ID
Resolvable(id, sag) ==
  \/ id \in Range(sag)
  \/ id - 1000 \in Range(sag)
  \/ id \in DOMAIN sagittal_coronal_remap_lookup
       /\ sagittal_coronal_remap_lookup[id] \in Range(sag)

ResolvedIndex(id, sag) ==
  IF id \in Range(sag) THEN PositionIn(sag, id)
  ELSE IF id - 1000 \in Range(sag) THEN PositionIn(sag, id - 1000)
  ELSE PositionIn(sag, sagittal_coronal_remap_lookup[id])

\* C10 as stated: for a class count other than 21, 51 and 96 and a LUT whose
\* every label is resolvable, the derivation completes and the index table
\* holds the resolved sagittal index of each full-space label in order
C10_InferredTable ==
  (/\ call = "map_prediction_sagittal2full"
   /\ pc \in {"returned", "raised"}
   /\ num_classes \notin {21, 51, 96}
   /\ lut_table # None)
    => LET full == get_labels_from_lut(lut_table, <<"Left-", "ctx-rh">>)[1]
           sag == get_labels_from_lut(lut_table, <<"Left-", "ctx-rh">>)[2]
       IN  (\A i \in 1..Len(full) : Resolvable(full[i], sag)) =>
             /\ result.idx_list # None
             /\ \A i \in 1..Len(full) : result.idx_list[i] = ResolvedIndex(full[i], sag)

\* the full-space labels of the LUT that no rule resolves
Unresolved ==
  LET full == get_labels_from_lut(lut_table, <<"Left-", "ctx-rh">>)[1]
      sag == get_labels_from_lut(lut_table, <<"Left-", "ctx-rh">>)[2]
  IN  {i \in 1..Len(full) : ~Resolvable(full[i], sag)}

\* C11: for a class count other than 21, 51 and 96 and a LUT with a
\* full-space label that has no exact, no ID-1000 and no hardcoded match, the
\* call ends with an error and returns no index table, whether or not the
\* class count equals the number of labels of the LUT
C11_UnresolvedSurfaced ==
  (/\ call = "map_prediction_sagittal2full"
   /\ pc \in {"returned", "raised"}
   /\ num_classes \notin {21, 51, 96}
   /\ lut_table # None
   /\ Unresolved # {})
    => /\ pc = "raised"
       /\ result.status = "raise"
       /\ result.error \in {"ValueError", "TypeError"}
       /\ result.idx_list = None
       /\ result.prediction_full = None

C11_Witness ==
  /\ call = "map_prediction_sagittal2full"
  /\ pc = "raised"
  /\ num_classes \notin {21, 51, 96}
  /\ lut_table # None
  /\ Unresolved # {}
  /\ num_classes # Len(get_labels_from_lut(lut_table, <<"Left-", "ctx-rh">>)[1])
  /\ result.error = "ValueError"

(***************************************************************************)
(* Cortex relabelling: clean_cortex_labels called twice in a row and       *)
(* split_cortex_labels (SpecCortex); fill_unknown_labels_per_hemi called   *)
(* for either hemisphere (SpecFill).                                       *)
(***************************************************************************)
CleanShape == <<MaxCleanVoxels, 1, 1>>

\* the sources and the targets of the substitutions
CleanIds == {80, 77, 85, 0, 62, 41, 30, 2, 72, 24, 29, 61, 3, 42}

SplitShape == <<MaxSplitVoxels, 1, 1>>

\* both white matters and a listed, problematic ID on either side
SplitIds == {2, 41, 1011, 2011}

CortexShape(function) ==
  IF function = "clean_cortex_labels" THEN CleanShape
  ELSE IF function = "split_cortex_labels" THEN SplitShape
  ELSE LabelShape

CortexIds(function) ==
  IF function = "clean_cortex_labels" THEN CleanIds
  ELSE IF function = "split_cortex_labels" THEN SplitIds
  ELSE FuseIds

CortexCall(functions) ==
  /\ call \in functions
  /\ pc = "ready"
  /\ shape = CortexShape(call)
  /\ aseg \in [Coords(shape) -> CortexIds(call)]
  /\ aseg_input = aseg
  /\ result = NoResult
  /\ labels = None
  /\ labels_sag = None
  /\ sagittal_lut_dict = None
  /\ aseg_nocc = None
  /\ processing = "none"
  /\ restored = None
  /\ IdleVol
  /\ IdleSag

\* (unknown_label, cortex_stop) as fuse_cortex_labels passes them
HemiArguments ==
  {[unknown_label |-> 1000, cortex_stop |-> 2000],
   [unknown_label |-> 2000, cortex_stop |-> 3000]}

InitCortex ==
  /\ CortexCall({"clean_cortex_labels", "split_cortex_labels"})
  /\ params = NoParams

InitFill ==
  /\ CortexCall({"fill_unknown_labels_per_hemi"})
  /\ params \in HemiArguments

cortexIdle == <<labels, labels_sag, sagittal_lut_dict, aseg_nocc, processing, restored,
                volVars, sagVars>>

\* the first call on the caller's array, then a second call on the same array
CleanCortexLabels ==
  /\ call = "clean_cortex_labels"
  /\ pc \in {"ready", "returned"}
  /\ aseg' = clean_cortex_labels(aseg)
  /\ result' = IF pc = "ready" THEN Ok(aseg') ELSE result
  /\ pc' = IF pc = "ready" THEN "returned" ELSE "returned_twice"
  /\ UNCHANGED <<call, shape, params, aseg_input, cortexIdle>>

FillUnknownLabelsPerHemi ==
  /\ call = "fill_unknown_labels_per_hemi"
  /\ pc = "ready"
  /\ LET r == fill_unknown_labels_per_hemi(aseg, shape, params.unknown_label,
                                           params.cortex_stop)
     IN  /\ result' = r
         /\ aseg' = r.vol
         /\ pc' = IF r.status = "ok" THEN "returned" ELSE "raised"
  /\ UNCHANGED <<call, shape, params, aseg_input, cortexIdle>>

SplitCortexLabels ==
  /\ call = "split_cortex_labels"
  /\ pc = "ready"
  /\ LET r == split_cortex_labels(aseg, shape)
     IN  /\ result' = r
         /\ aseg' = r.vol
         /\ pc' = IF r.status = "ok" THEN "returned" ELSE "raised"
  /\ UNCHANGED <<call, shape, params, aseg_input, cortexIdle>>

NextCortex == CleanCortexLabels \/ SplitCortexLabels

NextFill == FillUnknownLabelsPerHemi

SpecFill == InitFill /\ [][NextFill]_vars

SpecCortex == InitCortex /\ [][NextCortex]_vars

\* C12: the volume after the second call of clean_cortex_labels equals the
\* volume the first call returned
C12_CleanIdempotent ==
  (call = "clean_cortex_labels" /\ pc = "returned_twice") => aseg = result.vol

C12_Witness ==
  /\ call = "clean_cortex_labels"
  /\ pc = "returned_twice"
  /\ {62, 29} \subseteq Unique(aseg_input)
  /\ Unique(aseg) = {41, 0}

\* the voxels of the argument that hold the unknown ID
UnknownRegion == {c \in Coords(shape) : aseg_input[c] = params.unknown_label}

\* C13 as stated: for a volume with unknown voxels the call returns, no voxel
\* holds the unknown ID afterwards, every formerly unknown voxel holds the ID
\* of a parcel of the hemisphere that borders the unknown region, and every
\* other voxel is unchanged
C13_UnknownFilled ==
  (/\ call = "fill_unknown_labels_per_hemi"
   /\ pc \in {"returned", "raised"}
   /\ UnknownRegion # {})
    => /\ result.status = "ok"
       /\ \A c \in Coords(shape) :
            /\ aseg[c] # params.unknown_label
            /\ c \notin UnknownRegion => aseg[c] = aseg_input[c]
            /\ c \in UnknownRegion =>
                 /\ aseg[c] > params.unknown_label
                 /\ aseg[c] < params.cortex_stop
                 /\ \E e \in DilationShell(UnknownRegion, shape) : aseg_input[e] = aseg[c]

\* the largest components of the voxels of the argument that hold an ID
LargestComponents(id) ==
  LET foreground == {c \in Coords(shape) : aseg_input[c] = id}
      components == {Grow({c}, foreground) : c \in foreground}
  IN  {k \in components : \A other \in components : Cardinality(other) <= Cardinality(k)}

\* the components of the voxels of the argument that hold an ID
ComponentsOf(id) ==
  LET foreground == {c \in Coords(shape) : aseg_input[c] = id}
  IN  {Grow({c}, foreground) : c \in foreground}

\* C14 as stated: after the loop over the 19 listed IDs, a component of
\* voxels of a listed ID holds ID + 1000 when its centroid is closer to the
\* centroid of the largest right-WM component than to that of the largest
\* left-WM component, and keeps its ID when it is closer to the left one or
\* at the same distance from both
C14_ComponentSplit ==
  (/\ call = "split_cortex_labels"
   /\ pc \in {"returned", "raised"}
   /\ LargestComponents(41) # {}
   /\ LargestComponents(2) # {})
    => /\ result.status = "ok"
       /\ \E rh \in LargestComponents(41), lh \in LargestComponents(2) :
            \A i \in 1..Len(labels_list) : \A k \in ComponentsOf(labels_list[i]) :
              \A c \in k :
                result.components[c] =
                  IF SqDist(k, rh, Cardinality(lh)) < SqDist(k, lh, Cardinality(rh))
                  THEN labels_list[i] + 1000
                  ELSE labels_list[i]

\* the blurred white-matter indicators of the argument
BlurredLeft == GaussianBlur({c \in Coords(shape) : aseg_input[c] = 2}, shape, GaussWeights3)

BlurredRight == GaussianBlur({c \in Coords(shape) : aseg_input[c] = 41}, shape, GaussWeights3)

\* C15: after the call a voxel that held a problematic ID or its +1000
\* variant holds the left variant where the blurred left-WM indicator is at
\* least the blurred right-WM indicator, and the right variant elsewhere
C15_VoxelSplit ==
  (call = "split_cortex_labels" /\ pc = "returned") =>
    \A c \in Coords(shape) : \A k \in 1..Len(ProbClasses) :
      aseg_input[c] \in {ProbClasses[k], ProbClasses[k] + 1000} =>
        aseg[c] = IF BlurredLeft[c] >= BlurredRight[c]
                  THEN ProbClasses[k]
                  ELSE ProbClasses[k] + 1000

\* a voxel that the component step put on the right, where the two blurred
\* indicators are equal, and that the voxel step puts on the left
C15_Witness ==
  /\ call = "split_cortex_labels"
  /\ pc = "returned"
  /\ \E c \in Coords(shape) :
       /\ aseg_input[c] = 2011
       /\ result.components[c] = 2011
       /\ BlurredLeft[c] = BlurredRight[c]
       /\ aseg[c] = 1011

(***************************************************************************)
(* Weight masks: create_weight_mask on label volumes with labels           *)
(* 0..MaxWeightLabel, on the smallest shape np.gradient accepts and on a   *)
(* flat one.                                                               *)
(***************************************************************************)
WeightShapes == {<<2, 2, 2>>, <<2, 2, 1>>}

WeightArguments ==
  [max_weight : {2}, max_edge_weight : {3}, max_hires_weight : {None, <<4>>},
   ctx_thresh : {0}, mean_filter : BOOLEAN, cortex_mask : BOOLEAN, gradient : BOOLEAN]

InitWeight ==
  /\ call = "create_weight_mask"
  /\ pc = "ready"
  /\ shape \in WeightShapes
  /\ aseg \in [Coords(shape) -> 0..MaxWeightLabel]
  /\ aseg_input = aseg
  /\ params \in WeightArguments
  /\ result = NoResult
  /\ labels = None
  /\ labels_sag = None
  /\ sagittal_lut_dict = None
  /\ aseg_nocc = None
  /\ processing = "none"
  /\ restored = None
  /\ IdleVol
  /\ IdleSag

CreateWeightMask ==
  /\ call = "create_weight_mask"
  /\ pc = "ready"
  /\ result' = create_weight_mask(aseg, shape, params.max_weight, params.max_edge_weight,
                                  params.max_hires_weight, params.ctx_thresh,
                                  params.mean_filter, params.cortex_mask, params.gradient)
  /\ pc' = IF result'.status = "ok" THEN "returned" ELSE "raised"
  /\ UNCHANGED <<call, shape, params, aseg, aseg_input, cortexIdle>>

NextWeight == CreateWeightMask

SpecWeight == InitWeight /\ [][NextWeight]_vars

\* C16 as stated: with max_hires_weight unset the call returns a weight for
\* every voxel of any label volume, and no weight exceeds
\* max_weight + max_edge_weight
C16_WeightBound ==
  (/\ call = "create_weight_mask"
   /\ pc \in {"returned", "raised"}
   /\ params.max_hires_weight = None
   /\ \A axis \in 1..3 : shape[axis] >= 2)
    => /\ result.status = "ok"
       /\ \A c \in Coords(shape) :
            result.weights_mask[c] <= (params.max_weight + params.max_edge_weight) * result.scale

\* C17 as stated: with a precomputed table (num_classes 21, 51 or 96) every
\* full-space index is sent to a sagittal index in 0..num_classes-1, and
\* every sagittal index in 0..num_classes-1 is the image of a full-space index
C17_TableOnto ==
  (/\ call = "map_prediction_sagittal2full"
   /\ pc = "returned"
   /\ num_classes \in {21, 51, 96})
    => /\ \A j \in 1..Len(result.idx_list) : result.idx_list[j] \in 0..(num_classes - 1)
       /\ \A k \in 0..(num_classes - 1) :
            \E j \in 1..Len(result.idx_list) : result.idx_list[j] = k

\* C18: when the call returns, a voxel that holds the left or the right ID of
\* a pair of sagittal_lut_dict at the full-space lookup has the position of
\* the right ID in labels_sag as its sagittal index, whichever order the
\* pairs come in; in "aparc" mode a voxel that holds a right-cortex ID c in
\* 2000..2999 has the sagittal index of c - 1000, the same as any voxel that
\* holds c - 1000
C18_HemisphereCollapse ==
  (call = "map_aparc_aseg2label" /\ pc \in {"returned", "restored"}) =>
    /\ \A i \in 1..Len(sagittal_lut_dict) : \A c \in Coords(shape) :
         result.at_lookup[c] \in {sagittal_lut_dict[i][1], sagittal_lut_dict[i][2]} =>
           /\ sagittal_lut_dict[i][2] \in Range(labels_sag)
           /\ result.mapped_aseg_sag[c] = PositionIn(labels_sag, sagittal_lut_dict[i][2])
    /\ processing = "aparc" =>
         \A c \in Coords(shape) :
           (result.at_lookup[c] >= 2000 /\ result.at_lookup[c] <= 2999) =>
             /\ result.at_lookup[c] - 1000 \in Range(labels_sag) =>
                  result.mapped_aseg_sag[c] = PositionIn(labels_sag, result.at_lookup[c] - 1000)
             /\ \A e \in Coords(shape) :
                  result.at_lookup[e] = result.at_lookup[c] - 1000 =>
                    result.mapped_aseg_sag[e] = result.mapped_aseg_sag[c]

C18_Witness ==
  /\ call = "map_aparc_aseg2label"
  /\ pc = "returned"
  /\ processing = "aparc"
  /\ Len(sagittal_lut_dict) = 2
  /\ sagittal_lut_dict[1][1] = 3
  /\ \E c, e, f \in Coords(shape) :
       /\ result.at_lookup[c] = 2
       /\ result.at_lookup[e] = 41
       /\ result.at_lookup[f] = 2014
       /\ result.mapped_aseg_sag[c] = result.mapped_aseg_sag[e]
       /\ result.mapped_aseg_sag[f] = PositionIn(labels_sag, 1014)
       /\ result.mapped_aseg_sag[f] # result.mapped_aseg_sag[c]

\* C19 as stated: in "aseg" mode the call ends with the CC-classes error
\* exactly when the volume holds an ID in 251..255 after the CC override and
\* the fixed substitutions
C19_CCClassesError ==
  (MapEnded /\ processing = "aseg") =>
    (result.error = "AssertionError: CC classes"
       <=> \E id \in PreprocessedIds : id >= 251 /\ id <= 255)

\* C20: after a view transform and its backward direction the volume and
\* its shape are those of the argument, for transform_axial and for
\* transform_sagittal
C20_ViewRoundTrip ==
  (call \in {"transform_axial", "transform_sagittal"} /\ pc = "returned") =>
    /\ result.shape = shape
    /\ result.vol = img

C20_Witness ==
  /\ call = "transform_axial"
  /\ pc = "returned"
  /\ shape = <<1, 2, 3>>
  /\ result.forward.shape = <<3, 1, 2>>
  /\ img[<<0, 1, 2>>] = 1
  /\ \A c \in Coords(shape) : c # <<0, 1, 2>> => img[c] = 0
  /\ result.forward.vol[<<2, 0, 1>>] = 1
  /\ result.vol = img

(***************************************************************************)
(* Blank slices: filter_blank_slices_thick on label volumes of MaxSlices   *)
(* slices of two pixels, with an image of two channels per slice and a     *)
(* weight volume that have as many slices as the labels or one more.       *)
(***************************************************************************)
MaxSlices == 3

SliceShape == <<2, 1, MaxSlices>>

\* an array whose value at an index is the flat position of the index
Ramp3(ramp_shape) ==
  [shape |-> ramp_shape,
   vol |-> [c \in Coords(ramp_shape) |->
             (c[1] * ramp_shape[2] + c[2]) * ramp_shape[3] + c[3]]]

Ramp4(ramp_shape) ==
  [shape |-> ramp_shape,
   vol |-> [c \in Coords4(ramp_shape) |->
             ((c[1] * ramp_shape[2] + c[2]) * ramp_shape[3] + c[3]) * ramp_shape[4] + c[4]]]

InitSlices ==
  /\ call = "filter_blank_slices_thick"
  /\ pc = "ready"
  /\ shape = SliceShape
  /\ \E ground_truth \in [Coords(shape) -> 0..2] :
       \E img_slices \in {MaxSlices, MaxSlices + 1} :
         \E weight_slices \in {MaxSlices, MaxSlices + 1} :
           \E threshold \in {2, 3} :
             params = [img_vol |-> Ramp4(<<shape[1], shape[2], img_slices, 2>>),
                       label_vol |-> [shape |-> shape, vol |-> ground_truth],
                       weight_vol |-> Ramp3(<<shape[1], shape[2], weight_slices>>),
                       threshold |-> threshold]
  /\ result = NoResult
  /\ IdleMap
  /\ IdleVol
  /\ IdleSag

FilterBlankSlicesThick ==
  /\ call = "filter_blank_slices_thick"
  /\ pc = "ready"
  /\ result' = filter_blank_slices_thick(params.img_vol, params.label_vol,
                                         params.weight_vol, params.threshold)
  /\ pc' = IF result'.status = "ok" THEN "returned" ELSE "raised"
  /\ UNCHANGED <<call, shape, params, mapVars, volVars, sagVars>>

NextSlices == FilterBlankSlicesThick

SpecSlices == InitSlices /\ [][NextSlices]_vars

\* the number of labelled (non-zero) pixels of slice z of the label volume
LabelledPixels(z) ==
  Cardinality({c \in Coords(shape) : c[3] = z /\ params.label_vol.vol[c] # 0})

\* C21 as stated: the returned volumes hold, in their order, exactly the
\* slices whose number of labelled pixels is not below threshold, the same
\* slice indices for img_vol, label_vol and weight_vol
C21_SlicesKept ==
  (call = "filter_blank_slices_thick" /\ pc = "returned") =>
    LET keep == {z \in 0..(shape[3] - 1) : LabelledPixels(z) >= params.threshold}
    IN  \E idx \in [1..Cardinality(keep) -> keep] :
          /\ \A j, k \in DOMAIN idx : j < k => idx[j] < idx[k]
          /\ result.label_vol.shape = <<shape[1], shape[2], Cardinality(keep)>>
          /\ result.weight_vol.shape = result.label_vol.shape
          /\ result.img_vol.shape = result.label_vol.shape \o <<params.img_vol.shape[4]>>
          /\ \A c \in Coords(result.label_vol.shape) :
               LET from == <<c[1], c[2], idx[c[3] + 1]>>
               IN  /\ result.label_vol.vol[c] = params.label_vol.vol[from]
                   /\ result.weight_vol.vol[c] = params.weight_vol.vol[from]
                   /\ \A t \in 0..(params.img_vol.shape[4] - 1) :
                        result.img_vol.vol[c \o <<t>>] = params.img_vol.vol[from \o <<t>>]

====
